---- MODULE Spec2Model ----
(***************************************************************************)
(* A model of util/misc.py: NodeDistributedSampler, SmoothedValue and      *)
(* MetricLogger, NativeScalerWithGradNormCount, CheckpointManager and      *)
(* GatherLayer.  Each component has its own specification (an Init and a   *)
(* Next over the shared variables); the variables of the other components  *)
(* rest at their idle values.                                              *)
(***************************************************************************)
EXTENDS Integers, Sequences, FiniteSets

\* ------------------------------------------------------------------------
\* Bounds of the model
\* ------------------------------------------------------------------------

\* largest dataset length len(dataset)
MaxN == 4
\* largest num_replicas (world size) and local_size of the sampler
MaxW == 4
\* largest epoch number given to set_epoch
MaxEpoch == 1

\* largest world size of the process group (metrics, gather, checkpoints)
MaxRanks == 2
\* most update calls on one rank's meter
MaxUpdates == 2
\* most synchronize_between_processes calls on one rank's meter
MaxSyncs == 1
\* SmoothedValue(window_size): the capacity of the window
window_size == 1

\* the values given to SmoothedValue.update
Values == {1, 2}

\* most training steps of one process between restarts
MaxTrain == 1
\* most CheckpointManager.checkpoint calls in a run
MaxCkpts == 2
\* most save_model calls in a run
MaxSaves == 2
\* most MetricLogger.update calls on one rank
MaxLogged == 2

\* most __call__ steps of one NativeScalerWithGradNormCount
MaxSteps == 3
\* largest growth_interval given to NativeScalerWithGradNormCount
MaxInterval == 2

\* longest iterable given to MetricLogger.log_every
MaxItems == 3
\* largest print_freq given to MetricLogger.log_every
MaxFreq == 2

\* the elements of the iterables given to log_every
LogItems == {"a", "b"}
\* the seconds time.time() advances between two readings
Elapsed == {0, 1}

\* most parameters handed to one __call__
MaxParams == 2

\* the values of the one-element gradients of the parameters
GradMagnitudes == {0, 3, 4}
\* the clip_grad thresholds
ClipValues == {1, 5}

\* the values of the one-element shards given to GatherLayer
ShardValues == {1, 2}
\* the values of the upstream gradients given to GatherLayer.backward
GradValues == {0, 1}

\* the names MetricLogger.update is called with
MeterNames == {"loss", "lr"}
\* the values MetricLogger.update is called with
LoggedValues == {1}

\* the epochs save_model is called with
SavedEpochs == {0, 9, 10}
\* save_model(latest_postfix=...)
LatestPostfixes == {<<"latest">>, <<"best">>}
\* args.output_dir, as the sequence of its parts
OutputDir == <<"exp", "-", "1">>

\* CheckpointManager(modules=...): the component names, in registration order
Components == <<"model", "optimizer">>
\* CheckpointManager(save_freq=..., save_list=...): {} stands for save_freq=None
SaveConfigs == {<<{}, {}>>, <<{2}, {1}>>}
\* the same, with a period alone and an allow-list alone
AllSaveConfigs == SaveConfigs \cup {<<{2}, {}>>, <<{}, {1}>>}

VARIABLES
    \* ---- the process group -----------------------------------------------
    world_size,     \* dist.get_world_size()
    dist_init,      \* is_dist_avail_and_initialized()
    \* ---- SmoothedValue ----------------------------------------------------
    meter,          \* rank -> its SmoothedValue [deque, count, total]
    mpc,            \* rank -> where it is in synchronize_between_processes
    tensor,         \* rank -> the tensor t of synchronize_between_processes
    fed,            \* rank -> [n, sum, vals] of the update calls it made so far
    syncs_due,      \* synchronize_between_processes calls the run makes on a rank
    n_syncs,        \* rank -> synchronize_between_processes calls returned
    dirty,          \* rank -> whether it updated after a synchronize call
    \* ---- CheckpointManager ------------------------------------------------
    save_freq,      \* self.save_freq ({} for None, {n} for n)
    save_list,      \* self.save_list
    modules,        \* process -> (component name -> the component's state)
    latest,         \* the file checkpoint_latest.pth: <<>> if absent, else <<record>>
    latest_torn,    \* whether that file holds only a part of the record's bytes
    snapshots,      \* epoch -> the record in checkpoint_<epoch>.pth, where written
    returned,       \* what resume() returned or raised, when it was the last call
    taken,          \* the leader's last checkpoint call: its arguments and the
                    \* component states at the call
    n_ckpt,         \* checkpoint calls made so far
    \* ---- NodeDistributedSampler -----------------------------------------
    dataset_len,    \* len(self.dataset)
    num_replicas,   \* self.num_replicas
    num_parts,      \* self.num_parts (local_size)
    shuffle,        \* self.shuffle
    gen,            \* what torch.randperm yields for seed 0 (see randperm)
    epoch,          \* rank -> self.epoch of that rank's sampler
    driven,         \* the ranks whose sampler object the run drives
    last_set,       \* rank -> value of the most recent set_epoch call (0 if none)
    yielded,        \* rank -> outcome of the most recent __iter__
    yield_under,    \* rank -> the set_epoch value in force at that __iter__
    yield_again,    \* rank -> whether an earlier __iter__ ran under that value
    first_yield,    \* rank -> (set_epoch value -> outcome of the first __iter__ under it)
    \* ---- GatherLayer -------------------------------------------------------
    g_pc,           \* rank -> where it is in forward / backward
    g_input,        \* rank -> the input tensor of forward (one element)
    g_given,        \* rank -> the value of its input when forward was called
    saved,          \* rank -> ctx.saved_tensors
    output,         \* rank -> the list output of forward, slot i at index i + 1
    grads,          \* rank -> the tensor grads of backward
    upstream,       \* rank -> the gradient backward was called with
    grad_out,       \* rank -> what backward returned
    \* ---- NativeScalerWithGradNormCount -----------------------------------
    nscaler,        \* the scaler of the run that is never serialized
    restored,       \* the fresh scaler that loaded the state_dict
    sc_phase,       \* "run" before the split, then "replay" or "load_raised"
    sc_steps,       \* __call__ steps of the run so far
    scales_run,     \* the scale after each step since the split, never serialized
    scales_restored, \* the scale after each step since the split, restored scaler
    call_out,       \* what the last __call__ of Call did and returned
    streak,         \* update steps without overflow since the last overflow
    \* ---- MetricLogger.log_every -------------------------------------------
    le_items,       \* iterable, as a sequence
    print_freq,     \* print_freq
    le_pc,          \* the generator: "created", "suspended", "done" or "raised"
    le_i,           \* i
    le_out,         \* the objects the generator has yielded so far
    le_printed,     \* the values of i at which a line was printed
    iter_time,      \* iter_time: [count, total]
    data_time,      \* data_time: [count, total]
    \* ---- save_model / auto_load_model -------------------------------------
    out_dir,        \* path -> the record in that file of args.output_dir; a
                    \* path is the sequence of its parts
    args,           \* args: [auto_resume, resume, start_epoch]
    job,            \* the process: [model, optimizer, loss_scaler], each the
                    \* number of training steps it holds; loss_scaler is <<>>
                    \* for None
    al_out,         \* the last auto_load_model call: [st, auto, file]
    n_saves,        \* save_model calls made so far
    \* ---- MetricLogger -------------------------------------------------------
    ml_meters,      \* rank -> self.meters in insertion order, each [name, sv]
    ml_pc,          \* rank -> where it is in synchronize_between_processes
    ml_at,          \* rank -> the position in self.meters.values() of the loop
    ml_t            \* rank -> the tensor t of the meter at that position

samplerVars == <<dataset_len, num_replicas, num_parts, shuffle, gen, epoch,
                 driven, last_set, yielded, yield_under, yield_again,
                 first_yield>>

groupVars == <<world_size, dist_init>>

meterVars == <<meter, mpc, tensor, fed, syncs_due, n_syncs, dirty>>

ckptVars == <<save_freq, save_list, modules, latest, latest_torn, snapshots,
              returned, taken, n_ckpt>>

gatherVars == <<g_pc, g_input, g_given, saved, output, grads, upstream, grad_out>>

scalerVars == <<nscaler, restored, sc_phase, sc_steps, scales_run, scales_restored,
                call_out, streak>>

logVars == <<le_items, print_freq, le_pc, le_i, le_out, le_printed, iter_time,
             data_time>>

autoVars == <<out_dir, args, job, al_out, n_saves>>

loggerVars == <<ml_meters, ml_pc, ml_at, ml_t>>

vars == <<groupVars, meterVars, ckptVars, samplerVars, gatherVars, scalerVars,
          logVars, autoVars, loggerVars>>

\* what the actions of one component leave alone
notSampler == <<groupVars, meterVars, ckptVars, gatherVars, scalerVars, logVars,
                 autoVars, loggerVars>>

notMeter == <<samplerVars, ckptVars, gatherVars, scalerVars, logVars,
               autoVars, loggerVars>>

notCkpt == <<groupVars, meterVars, samplerVars, gatherVars, scalerVars, logVars,
              autoVars, loggerVars>>

notGather == <<groupVars, meterVars, ckptVars, samplerVars, scalerVars, logVars,
                autoVars, loggerVars>>

notScaler == <<groupVars, meterVars, ckptVars, samplerVars, gatherVars, logVars,
                autoVars, loggerVars>>

notLog == <<groupVars, meterVars, ckptVars, samplerVars, gatherVars, scalerVars,
             autoVars, loggerVars>>

notAuto == <<groupVars, meterVars, ckptVars, samplerVars, gatherVars, scalerVars,
             logVars, loggerVars>>

notLogger == <<meterVars, ckptVars, samplerVars, gatherVars, scalerVars, logVars,
               autoVars>>

\* ------------------------------------------------------------------------
\* Python helpers
\* ------------------------------------------------------------------------

Min(a, b) == IF a < b THEN a ELSE b

Max(a, b) == IF a > b THEN a ELSE b

Range(s) == {s[i] : i \in DOMAIN s}

\* int(math.ceil(a * 1.0 / b)) for the small non-negative integers of the model
CeilDiv(a, b) == (a + b - 1) \div b

\* a slice bound as Python normalises it: negative counts from the end, and
\* the result is clamped to [0, n]
ClampIdx(i, n) == IF i < 0 THEN Max(i + n, 0) ELSE Min(i, n)

\* s[start:stop:step] of a Python list (0-based, step > 0), as a 1-based sequence
PySlice(s, start, stop, step) ==
    LET n   == Len(s)
        lo  == ClampIdx(start, n)
        hi  == ClampIdx(stop, n)
        cnt == IF hi > lo THEN (hi - lo + step - 1) \div step ELSE 0
    IN  [k \in 1..cnt |-> s[lo + (k - 1) * step + 1]]

\* torch.arange(n).tolist()
Arange(n) == [i \in 1..n |-> i - 1]

\* all orderings of 0..n-1
Orderings(n) == {p \in [1..n -> 0..(n - 1)] : \A i, j \in 1..n : p[i] = p[j] => i = j}

\* outcomes of a call
Ok(s) == [st |-> "ok", seq |-> s]

Raise(e) == [st |-> e, seq |-> <<>>]

NotCalled == [st |-> "none", seq |-> <<>>]

\* greatest common divisor of a >= 0 and b >= 0
RECURSIVE Gcd(_, _)
Gcd(a, b) == IF b = 0 THEN a ELSE Gcd(b, a % b)

\* the quotient a / b (b > 0) in lowest terms
Quot(a, b) == LET g == Gcd(a, b) IN [num |-> a \div g, den |-> b \div g]

\* sum of f[x] over the finite set S
RECURSIVE SumOver(_, _)
SumOver(S, f) ==
    IF S = {} THEN 0
    ELSE LET x == CHOOSE y \in S : TRUE IN f[x] + SumOver(S \ {x}, f)

\* ------------------------------------------------------------------------
\* The process group
\* ------------------------------------------------------------------------

Procs == 0..(world_size - 1)

\* a process group of 1..MaxRanks ranks, or a single process without one
GroupConfig ==
    /\ world_size \in 1..MaxRanks
    /\ dist_init \in BOOLEAN
    /\ (~dist_init) => world_size = 1

GroupIdle == world_size = 1 /\ dist_init = FALSE

\* a process group of 1..MaxRanks ranks
GroupUp == world_size \in 1..MaxRanks /\ dist_init = TRUE

\* ------------------------------------------------------------------------
\* SmoothedValue
\* ------------------------------------------------------------------------

\* SmoothedValue.__init__
NewSmoothedValue == [deque |-> <<>>, count |-> 0, total |-> 0]

DequeAppendUnbounded(d, value) == Append(d, value)

\* deque(maxlen=window_size).append(value)
DequeAppend(d, value) ==
    IF Len(d) < window_size THEN Append(d, value)
    ELSE IF window_size = 0 THEN d
    ELSE Append(Tail(d), value)

\* SmoothedValue.update(value, n)
update(sv, value, n) ==
    [deque |-> DequeAppend(sv.deque, value),
     count |-> sv.count + n,
     total |-> sv.total + value * n]

\* SmoothedValue.global_avg
global_avg(sv) ==
    IF sv.count = 0 THEN Raise("ZeroDivisionError")
    ELSE [st |-> "ok", seq |-> Quot(sv.total, sv.count)]

\* t = torch.tensor([self.count, self.total])
SyncTensor(sv) == <<sv.count, sv.total>>

AllReduceOfRankZero(ts) == ts[0]

\* dist.all_reduce(t): the element-wise sum of every rank's tensor
AllReduceSum(ts) ==
    [i \in 1..2 |-> SumOver(DOMAIN ts, [r \in DOMAIN ts |-> ts[r][i]])]

SyncWriteBackTotalOnly(sv, t) == [sv EXCEPT !.total = t[2]]

\* self.count = int(t[0]); self.total = t[1]
SyncWriteBack(sv, t) == [sv EXCEPT !.count = t[1], !.total = t[2]]

\* MetricLogger.update(name=v): meter.update(v) on rank r
Update(r, v) ==
    /\ mpc[r] = "idle"
    /\ fed[r].n < MaxUpdates
    /\ meter' = [meter EXCEPT ![r] = update(@, v, 1)]
    /\ fed' = [fed EXCEPT ![r] = [n |-> @.n + 1, sum |-> @.sum + v,
                                   vals |-> Append(@.vals, v)]]
    /\ dirty' = [dirty EXCEPT ![r] = n_syncs[r] > 0]
    /\ UNCHANGED <<mpc, tensor, n_syncs, syncs_due, groupVars>>
    /\ UNCHANGED notMeter

\* synchronize_between_processes on rank r, up to its entry into dist.barrier()
\* (or its return, without a process group)
SyncCall(r) ==
    /\ mpc[r] = "idle"
    /\ n_syncs[r] < syncs_due
    /\ IF ~dist_init
       THEN /\ n_syncs' = [n_syncs EXCEPT ![r] = @ + 1]
            /\ UNCHANGED <<mpc, tensor>>
       ELSE /\ tensor' = [tensor EXCEPT ![r] = SyncTensor(meter[r])]
            /\ mpc' = [mpc EXCEPT ![r] = "barrier"]
            /\ UNCHANGED n_syncs
    /\ UNCHANGED <<meter, fed, dirty, syncs_due, groupVars>>
    /\ UNCHANGED notMeter

\* dist.barrier() returns on every rank once every rank has entered it; each
\* rank then enters dist.all_reduce(t)
BarrierPass ==
    /\ \A r \in Procs : mpc[r] = "barrier"
    /\ mpc' = [r \in Procs |-> "all_reduce"]
    /\ UNCHANGED <<meter, tensor, fed, n_syncs, dirty, syncs_due, groupVars>>
    /\ UNCHANGED notMeter

\* dist.all_reduce(t) completes: every rank's t holds the sum
AllReduceDone ==
    /\ \A r \in Procs : mpc[r] = "all_reduce"
    /\ tensor' = [r \in Procs |-> AllReduceSum(tensor)]
    /\ mpc' = [r \in Procs |-> "reduced"]
    /\ UNCHANGED <<meter, fed, n_syncs, dirty, syncs_due, groupVars>>
    /\ UNCHANGED notMeter

\* the rest of synchronize_between_processes on rank r
SyncReturn(r) ==
    /\ mpc[r] = "reduced"
    /\ meter' = [meter EXCEPT ![r] = SyncWriteBack(@, tensor[r])]
    /\ mpc' = [mpc EXCEPT ![r] = "idle"]
    /\ n_syncs' = [n_syncs EXCEPT ![r] = @ + 1]
    /\ UNCHANGED <<tensor, fed, dirty, syncs_due, groupVars>>
    /\ UNCHANGED notMeter

MeterStart ==
    /\ meter = [r \in Procs |-> NewSmoothedValue]
    /\ mpc = [r \in Procs |-> "idle"]
    /\ tensor = [r \in Procs |-> <<0, 0>>]
    /\ fed = [r \in Procs |-> [n |-> 0, sum |-> 0, vals |-> <<>>]]
    /\ syncs_due = MaxSyncs
    /\ n_syncs = [r \in Procs |-> 0]
    /\ dirty = [r \in Procs |-> FALSE]

\* the values a rank may have given to update before a run of synchronize calls
UpdateRuns == UNION {[1..n -> Values] : n \in 0..MaxUpdates}

\* the meter after update(v) for every v of vals, in order
RECURSIVE Updated(_)
Updated(vals) ==
    IF vals = <<>> THEN NewSmoothedValue
    ELSE update(Updated(SubSeq(vals, 1, Len(vals) - 1)), vals[Len(vals)], 1)

\* every rank has made its update calls; the run then makes one synchronize
\* call more than MaxSyncs on every rank, with no update in between
MeterUpdated ==
    /\ \E runs \in [Procs -> UpdateRuns] :
          /\ meter = [r \in Procs |-> Updated(runs[r])]
          /\ fed = [r \in Procs |->
                      [n |-> Len(runs[r]),
                       sum |-> SumOver(DOMAIN runs[r], runs[r]),
                       vals |-> runs[r]]]
    /\ mpc = [r \in Procs |-> "idle"]
    /\ tensor = [r \in Procs |-> <<0, 0>>]
    /\ syncs_due = MaxSyncs + 1
    /\ n_syncs = [r \in Procs |-> 0]
    /\ dirty = [r \in Procs |-> FALSE]

\* ------------------------------------------------------------------------
\* MetricLogger.log_every
\* ------------------------------------------------------------------------

\* iter_time = SmoothedValue(fmt=...), data_time = SmoothedValue(fmt=...):
\* their count and total
NewTimer == [count |-> 0, total |-> 0]

\* iter_time.update(time.time() - end)
TimerUpdate(t, dt) == [count |-> t.count + 1, total |-> t.total + dt]

\* if i % print_freq == 0 or i == len(iterable) - 1
PrintDue(i) == i % print_freq = 0 \/ i = Len(le_items) - 1

\* total_time / len(iterable), after the loop
TotalTimePerItem == IF Len(le_items) = 0 THEN "ZeroDivisionError" ELSE "ok"

\* the generator leaves its loop: the closing line is formatted and printed
LoopExit == IF TotalTimePerItem = "ok" THEN "done" ELSE "raised"

\* next() on the generator log_every(iterable, print_freq) returned: it runs
\* from where it stood to its next yield, or to its end
LogNext(dt1, dt2) ==
    /\ le_pc \in {"created", "suspended"}
    /\ IF le_pc = "created"
       THEN IF Len(le_items) = 0
            THEN /\ le_pc' = LoopExit
                 /\ UNCHANGED <<le_i, le_out, le_printed, iter_time, data_time>>
            ELSE /\ data_time' = TimerUpdate(data_time, dt1)
                 /\ le_out' = Append(le_out, le_items[1])
                 /\ le_pc' = "suspended"
                 /\ UNCHANGED <<le_i, le_printed, iter_time>>
       ELSE /\ iter_time' = TimerUpdate(iter_time, dt1)
            /\ le_printed' = IF PrintDue(le_i) THEN Append(le_printed, le_i)
                             ELSE le_printed
            /\ le_i' = le_i + 1
            /\ IF le_i + 1 < Len(le_items)
               THEN /\ data_time' = TimerUpdate(data_time, dt2)
                    /\ le_out' = Append(le_out, le_items[le_i + 2])
                    /\ UNCHANGED le_pc
               ELSE /\ le_pc' = LoopExit
                    /\ UNCHANGED <<le_out, data_time>>
    /\ UNCHANGED <<le_items, print_freq>>
    /\ UNCHANGED notLog

\* the generator as log_every(iterable, print_freq) returns it
LogStart ==
    /\ le_items \in UNION {[1..n -> LogItems] : n \in 0..MaxItems}
    /\ print_freq \in 1..MaxFreq
    /\ le_pc = "created"
    /\ le_i = 0
    /\ le_out = <<>>
    /\ le_printed = <<>>
    /\ iter_time = NewTimer
    /\ data_time = NewTimer

\* no log_every generator in use
LogIdle ==
    /\ le_items = <<>>
    /\ print_freq = 1
    /\ le_pc = "created"
    /\ le_i = 0
    /\ le_out = <<>>
    /\ le_printed = <<>>
    /\ iter_time = NewTimer
    /\ data_time = NewTimer

\* ------------------------------------------------------------------------
\* MetricLogger
\* ------------------------------------------------------------------------

\* the position of the meter named k in the meters ms, 0 if there is none
MeterAt(ms, k) ==
    IF \E i \in DOMAIN ms : ms[i].name = k
    THEN CHOOSE i \in DOMAIN ms : ms[i].name = k
    ELSE 0

\* self.meters[k].update(v) on the defaultdict(SmoothedValue) ms
MetersUpdate(ms, k, v) ==
    IF MeterAt(ms, k) = 0
    THEN Append(ms, [name |-> k, sv |-> update(NewSmoothedValue, v, 1)])
    ELSE [ms EXCEPT ![MeterAt(ms, k)].sv = update(@, v, 1)]

\* update calls made on the meters ms
Logged(ms) == SumOver(DOMAIN ms, [i \in DOMAIN ms |-> ms[i].sv.count])

\* MetricLogger.update(k=v) on rank r
LoggerUpdate(r, k, v) ==
    /\ ml_pc[r] = "idle"
    /\ Logged(ml_meters[r]) < MaxLogged
    /\ ml_meters' = [ml_meters EXCEPT ![r] = MetersUpdate(@, k, v)]
    /\ UNCHANGED <<ml_pc, ml_at, ml_t, groupVars>>
    /\ UNCHANGED notLogger

\* MetricLogger.synchronize_between_processes on rank r, up to the entry of
\* its first meter into dist.barrier(); without a process group every meter
\* returns at once, and without meters the loop has nothing to do
LoggerSync(r) ==
    /\ r \in Procs
    /\ ml_pc[r] = "idle"
    /\ IF ~dist_init \/ ml_meters[r] = <<>>
       THEN /\ ml_pc' = [ml_pc EXCEPT ![r] = "returned"]
            /\ UNCHANGED <<ml_at, ml_t>>
       ELSE /\ ml_at' = [ml_at EXCEPT ![r] = 1]
            /\ ml_t' = [ml_t EXCEPT ![r] = SyncTensor(ml_meters[r][1].sv)]
            /\ ml_pc' = [ml_pc EXCEPT ![r] = "barrier"]
    /\ UNCHANGED <<ml_meters, groupVars>>
    /\ UNCHANGED notLogger

BarrierReadyAmongCallers ==
    /\ \E r \in Procs : ml_pc[r] = "barrier"
    /\ \A r \in Procs : ml_pc[r] \in {"barrier", "returned"}

\* dist.barrier() returns once every rank of the group has entered it
BarrierReady == \A r \in Procs : ml_pc[r] = "barrier"

\* the barrier returns on every rank, and each rank enters dist.all_reduce(t)
LoggerBarrierPass ==
    /\ BarrierReady
    /\ ml_pc' = [r \in Procs |-> IF ml_pc[r] = "barrier" THEN "all_reduce" ELSE ml_pc[r]]
    /\ UNCHANGED <<ml_meters, ml_at, ml_t, groupVars>>
    /\ UNCHANGED notLogger

\* dist.all_reduce(t) completes: every rank's t holds the sum
LoggerAllReduceDone ==
    /\ \A r \in Procs : ml_pc[r] = "all_reduce"
    /\ ml_t' = [r \in Procs |-> AllReduceSum(ml_t)]
    /\ ml_pc' = [r \in Procs |-> "reduced"]
    /\ UNCHANGED <<ml_meters, ml_at, groupVars>>
    /\ UNCHANGED notLogger

\* the rest of the meter's synchronize_between_processes on rank r, and the
\* loop's step to the next meter up to its entry into dist.barrier()
LoggerNextMeter(r) ==
    /\ r \in Procs
    /\ ml_pc[r] = "reduced"
    /\ LET written == [ml_meters[r] EXCEPT ![ml_at[r]].sv = SyncWriteBack(@, ml_t[r])]
       IN  /\ ml_meters' = [ml_meters EXCEPT ![r] = written]
           /\ IF ml_at[r] < Len(written)
              THEN /\ ml_at' = [ml_at EXCEPT ![r] = @ + 1]
                   /\ ml_t' = [ml_t EXCEPT ![r] = SyncTensor(written[ml_at[r] + 1].sv)]
                   /\ ml_pc' = [ml_pc EXCEPT ![r] = "barrier"]
              ELSE /\ ml_pc' = [ml_pc EXCEPT ![r] = "returned"]
                   /\ UNCHANGED <<ml_at, ml_t>>
    /\ UNCHANGED groupVars
    /\ UNCHANGED notLogger

\* every rank holds a MetricLogger without meters
LoggerStart ==
    /\ ml_meters = [r \in Procs |-> <<>>]
    /\ ml_pc = [r \in Procs |-> "idle"]
    /\ ml_at = [r \in Procs |-> 0]
    /\ ml_t = [r \in Procs |-> <<0, 0>>]

\* no MetricLogger in use
LoggerIdle ==
    /\ ml_meters = <<>> /\ ml_pc = <<>> /\ ml_at = <<>> /\ ml_t = <<>>

\* ------------------------------------------------------------------------
\* GatherLayer
\* ------------------------------------------------------------------------

\* [torch.zeros_like(input) for _ in range(dist.get_world_size())]
ZerosList == [i \in 1..world_size |-> 0]

all_gather_reversed(inputs) ==
    [r \in Procs |-> [i \in 1..world_size |-> inputs[world_size - i]]]

\* dist.all_gather(output, input): on every rank, slot i receives rank i's input
all_gather(inputs) ==
    [r \in Procs |-> [i \in 1..world_size |-> inputs[i - 1]]]

all_reduce_grads_skipped(gs) == gs

all_reduce_grads_max(gs) ==
    [r \in Procs |->
        [i \in 1..world_size |->
            CHOOSE m \in {gs[q][i] : q \in Procs} : \A q \in Procs : gs[q][i] <= m]]

\* dist.all_reduce(grads): every rank's grads becomes the element-wise sum of
\* the grads of all ranks
all_reduce_grads(gs) ==
    [r \in Procs |->
        [i \in 1..world_size |-> SumOver(Procs, [q \in Procs |-> gs[q][i]])]]

\* GatherLayer.forward on rank r, up to its collective
Forward(r) ==
    /\ g_pc[r] = "idle"
    /\ saved' = [saved EXCEPT ![r] = <<g_input[r]>>]
    /\ output' = [output EXCEPT ![r] = ZerosList]
    /\ g_pc' = [g_pc EXCEPT ![r] = "all_gather"]
    /\ UNCHANGED <<g_input, g_given, grads, upstream, grad_out>>
    /\ UNCHANGED notGather

\* every rank has entered all_gather: the lists are filled and forward
\* returns torch.stack(output, 0) on every rank
AllGatherDone ==
    /\ \A r \in Procs : g_pc[r] = "all_gather"
    /\ output' = all_gather(g_input)
    /\ g_pc' = [r \in Procs |-> "gathered"]
    /\ UNCHANGED <<g_input, g_given, saved, grads, upstream, grad_out>>
    /\ UNCHANGED notGather

\* GatherLayer.backward(ctx, g) on rank r, up to its collective
Backward(r, g) ==
    /\ g_pc[r] = "gathered"
    /\ grads' = [grads EXCEPT ![r] = g]
    /\ upstream' = [upstream EXCEPT ![r] = g]
    /\ g_pc' = [g_pc EXCEPT ![r] = "all_reduce"]
    /\ UNCHANGED <<g_input, g_given, saved, output, grad_out>>
    /\ UNCHANGED notGather

\* every rank has entered all_reduce: grads is summed in place, and backward
\* returns grad_out with grad_out[:] = grads[dist.get_rank()]
AllReduceGradsDone ==
    /\ \A r \in Procs : g_pc[r] = "all_reduce"
    /\ LET summed == all_reduce_grads(grads)
       IN  /\ grads' = summed
           /\ grad_out' = [r \in Procs |-> <<summed[r][r + 1]>>]
    /\ g_pc' = [r \in Procs |-> "done"]
    /\ UNCHANGED <<g_input, g_given, saved, output, upstream>>
    /\ UNCHANGED notGather

\* every rank holds a one-element shard and has not called forward
GatherStart ==
    /\ g_input \in [Procs -> ShardValues]
    /\ g_given = g_input
    /\ g_pc = [r \in Procs |-> "idle"]
    /\ saved = [r \in Procs |-> <<>>]
    /\ output = [r \in Procs |-> <<>>]
    /\ grads = [r \in Procs |-> <<>>]
    /\ upstream = [r \in Procs |-> <<>>]
    /\ grad_out = [r \in Procs |-> <<>>]

\* no GatherLayer in use
GatherIdle ==
    /\ g_input = <<>> /\ g_given = <<>> /\ g_pc = <<>> /\ saved = <<>>
    /\ output = <<>> /\ grads = <<>> /\ upstream = <<>> /\ grad_out = <<>>

\* ------------------------------------------------------------------------
\* NativeScalerWithGradNormCount
\* ------------------------------------------------------------------------

\* torch.cuda.amp.GradScaler(enabled=enabled, growth_interval=gi): the scale is
\* held as its exponent (init_scale 2.**16, growth_factor 2.0, backoff_factor
\* 0.5); a disabled GradScaler reports the scale 1.0
GradScaler(enabled, gi) ==
    [enabled |-> enabled, scale |-> IF enabled THEN 16 ELSE 0,
     growth_tracker |-> 0, growth_interval |-> gi]

\* NativeScalerWithGradNormCount.__init__
NewNativeScaler(enabled, gi) == [enabled |-> enabled, scaler |-> GradScaler(enabled, gi)]

\* self._scaler.step(optimizer); self._scaler.update(): an overflow skips the
\* step, backs the scale off and resets the tracker; growth_interval steps
\* without overflow in a row grow the scale
ScalerUpdate(g, found_inf) ==
    IF ~g.enabled THEN g
    ELSE IF found_inf THEN [g EXCEPT !.scale = @ - 1, !.growth_tracker = 0]
    ELSE IF g.growth_tracker + 1 = g.growth_interval
         THEN [g EXCEPT !.scale = @ + 1, !.growth_tracker = 0]
         ELSE [g EXCEPT !.growth_tracker = @ + 1]

ScalerCallWithoutUpdate(s, found_inf, update_grad) == s

ScalerCallAlwaysUpdates(s, found_inf, update_grad) ==
    [s EXCEPT !.scaler = ScalerUpdate(s.scaler, found_inf)]

\* NativeScalerWithGradNormCount.__call__(..., update_grad)
ScalerCall(s, found_inf, update_grad) ==
    IF update_grad THEN [s EXCEPT !.scaler = ScalerUpdate(s.scaler, found_inf)]
    ELSE s

EmptyStateDict == [k \in {} |-> 0]

\* NativeScalerWithGradNormCount.state_dict: the state_dict of self._scaler,
\* which is empty for a disabled GradScaler
scaler_state_dict(s) ==
    IF s.scaler.enabled
    THEN [k \in {"scale", "growth_interval", "_growth_tracker"} |->
             CASE k = "scale" -> s.scaler.scale
               [] k = "growth_interval" -> s.scaler.growth_interval
               [] k = "_growth_tracker" -> s.scaler.growth_tracker]
    ELSE EmptyStateDict

\* self._scaler.load_state_dict(state_dict): nothing on a disabled GradScaler,
\* RuntimeError on an empty state_dict
GradScalerLoad(g, sd) ==
    IF ~g.enabled THEN [st |-> "ok", scaler |-> g]
    ELSE IF DOMAIN sd = {} THEN [st |-> "RuntimeError", scaler |-> g]
    ELSE [st |-> "ok",
          scaler |-> [g EXCEPT !.scale = sd["scale"],
                               !.growth_interval = sd["growth_interval"],
                               !.growth_tracker = sd["_growth_tracker"]]]

scaler_load_state_dict_unless_enabled(s, sd) ==
    IF ~s.enabled
    THEN LET l == GradScalerLoad(s.scaler, sd)
         IN  [st |-> l.st, obj |-> [s EXCEPT !.scaler = l.scaler]]
    ELSE [st |-> "ok", obj |-> s]

\* NativeScalerWithGradNormCount.load_state_dict
scaler_load_state_dict(s, sd) ==
    IF s.enabled
    THEN LET l == GradScalerLoad(s.scaler, sd)
         IN  [st |-> l.st, obj |-> [s EXCEPT !.scaler = l.scaler]]
    ELSE [st |-> "ok", obj |-> s]

\* self._scaler.get_scale(), as the exponent
GetScale(s) == s.scaler.scale

\* ---- the gradients and the norm of one __call__ ----

\* the .grad of a parameter after backward: None, a finite value, or inf
NoGrad == [k |-> "none", v |-> 0]

NumGrad(x) == [k |-> "num", v |-> x]

InfGrad == [k |-> "inf", v |-> 0]

GradEntries == {NoGrad, InfGrad} \cup {NumGrad(x) : x \in GradMagnitudes}

\* the parameters argument: None, or a list of parameters with these grads
NoParams == [given |-> FALSE, grads |-> <<>>]

ParamLists ==
    {[given |-> TRUE, grads |-> g] :
        g \in UNION {[1..n -> GradEntries] : n \in 0..MaxParams}}

\* a norm: None, sqrt(sq) * 2^exp, or inf; exp is the exponent of the scale
\* the gradients still carry
NoNorm == [k |-> "none", sq |-> 0, exp |-> 0]

NumNorm(sq, exp) == [k |-> "num", sq |-> sq, exp |-> exp]

InfNorm == [k |-> "inf", sq |-> 0, exp |-> 0]

\* parameters = [p for p in parameters if p.grad is not None]
WithGrad(glist) == SelectSeq(glist, LAMBDA g : g.k # "none")

\* the unscaled gradients hold a non-finite value
HasInf(glist) == \E i \in DOMAIN glist : glist[i].k = "inf"

\* the L2 norm of the listed gradients, which carry the scale 2^exp
TotalNorm(glist, exp) ==
    LET gs == WithGrad(glist)
    IN  IF Len(gs) = 0 THEN NumNorm(0, 0)
        ELSE IF HasInf(gs) THEN InfNorm
        ELSE NumNorm(SumOver(DOMAIN gs, [i \in DOMAIN gs |-> gs[i].v * gs[i].v]), exp)

\* get_grad_norm_(parameters), the gradients carrying the scale 2^exp
get_grad_norm_(params, exp) ==
    IF ~params.given THEN [st |-> "TypeError", norm |-> NoNorm]
    ELSE [st |-> "ok", norm |-> TotalNorm(params.grads, exp)]

\* the norm of the gradients that torch.nn.utils.clip_grad_norm_(parameters, c)
\* leaves: they are multiplied by min(1, c / total_norm)
ClippedNorm(norm, c) ==
    IF norm.k = "num" /\ norm.sq > c * c THEN NumNorm(c * c, 0) ELSE norm

\* what torch.nn.utils.clip_grad_norm_(parameters, c) returns: the total norm
\* it computed before it scaled the gradients
clip_grad_norm_(params, c, exp) ==
    [st |-> "ok", norm |-> TotalNorm(params.grads, exp)]

\* the exponent of the scale the gradients carry after
\* self._scaler.scale(loss).backward()
ScaledExp(s) == GetScale(s)

UnscaleSkipped(s) == ScaledExp(s)

\* the exponent left after self._scaler.unscale_(optimizer)
UnscaledExp(s) == 0

NoCall ==
    [kind |-> "none", st |-> "ok", norm |-> NoNorm, left |-> NoNorm, total |-> NoNorm,
     found_inf |-> FALSE, unscaled |-> FALSE, stepped |-> FALSE, clip |-> {},
     scale_before |-> 0, tracker_before |-> 0]

\* what one __call__(loss, optimizer, clip_grad, parameters, update_grad) does
\* besides the scale update, and what it returns; clip is {} for None
CallOutcome(s, update_grad, clip, params) ==
    LET before == [NoCall EXCEPT !.clip = clip, !.scale_before = GetScale(s),
                                 !.tracker_before = s.scaler.growth_tracker,
                                 !.total = TotalNorm(params.grads, 0),
                                 !.left = TotalNorm(params.grads, ScaledExp(s))]
    IN  IF ~update_grad THEN [before EXCEPT !.kind = "accumulate"]
        ELSE IF clip # {} /\ ~params.given
        THEN [before EXCEPT !.kind = "update", !.st = "AssertionError"]
        ELSE LET exp == UnscaledExp(s)
                 c == CHOOSE x \in clip : TRUE
                 res == IF clip # {} THEN clip_grad_norm_(params, c, exp)
                        ELSE get_grad_norm_(params, exp)
                 inf == HasInf(params.grads)
                 own == TotalNorm(params.grads, exp)
             IN  IF res.st # "ok"
                 THEN [before EXCEPT !.kind = "update", !.st = res.st,
                                     !.unscaled = TRUE, !.left = own]
                 ELSE [before EXCEPT
                          !.kind = "update", !.norm = res.norm,
                          !.left = IF clip # {} THEN ClippedNorm(own, c) ELSE own,
                          !.found_inf = inf, !.unscaled = TRUE,
                          !.stepped = ~s.scaler.enabled \/ ~inf]

\* one __call__ with all its arguments
Call(update_grad, clip, params) ==
    /\ sc_phase = "run"
    /\ sc_steps < MaxSteps
    /\ LET out == CallOutcome(nscaler, update_grad, clip, params)
           inf == HasInf(params.grads)
       IN  /\ call_out' = out
           /\ nscaler' = IF out.st = "ok" THEN ScalerCall(nscaler, inf, update_grad)
                         ELSE nscaler
           /\ streak' = IF out.st = "ok" /\ update_grad
                        THEN (IF inf THEN 0 ELSE streak + 1)
                        ELSE streak
    /\ sc_steps' = sc_steps + 1
    /\ UNCHANGED <<restored, sc_phase, scales_run, scales_restored>>
    /\ UNCHANGED notScaler

\* one __call__ of the run before the split
Step(found_inf, update_grad) ==
    /\ sc_phase = "run"
    /\ sc_steps < MaxSteps
    /\ nscaler' = ScalerCall(nscaler, found_inf, update_grad)
    /\ sc_steps' = sc_steps + 1
    /\ UNCHANGED <<restored, sc_phase, scales_run, scales_restored, call_out, streak>>
    /\ UNCHANGED notScaler

\* the split: state_dict() of the run is loaded into a fresh scaler
\* constructed with (enabled, gi)
SaveAndLoad(enabled, gi) ==
    /\ sc_phase = "run"
    /\ LET l == scaler_load_state_dict(NewNativeScaler(enabled, gi),
                                       scaler_state_dict(nscaler))
       IN  /\ restored' = l.obj
           /\ sc_phase' = IF l.st = "ok" THEN "replay" ELSE "load_raised"
    /\ UNCHANGED <<nscaler, sc_steps, scales_run, scales_restored, call_out, streak>>
    /\ UNCHANGED notScaler

\* one __call__ after the split, with the same outcome on the run and on the
\* restored scaler
ReplayStep(found_inf, update_grad) ==
    /\ sc_phase = "replay"
    /\ sc_steps < MaxSteps
    /\ LET a == ScalerCall(nscaler, found_inf, update_grad)
           b == ScalerCall(restored, found_inf, update_grad)
       IN  /\ nscaler' = a
           /\ restored' = b
           /\ scales_run' = Append(scales_run, GetScale(a))
           /\ scales_restored' = Append(scales_restored, GetScale(b))
    /\ sc_steps' = sc_steps + 1
    /\ UNCHANGED <<sc_phase, call_out, streak>>
    /\ UNCHANGED notScaler

\* a scaler as constructed, before its first step
ScalerStart ==
    /\ \E enabled \in BOOLEAN : \E gi \in 1..MaxInterval :
          /\ nscaler = NewNativeScaler(enabled, gi)
          /\ restored = NewNativeScaler(enabled, gi)
    /\ sc_phase = "run"
    /\ sc_steps = 0
    /\ scales_run = <<>>
    /\ scales_restored = <<>>
    /\ call_out = NoCall
    /\ streak = 0

\* no scaler in use
ScalerIdle ==
    /\ nscaler = NewNativeScaler(FALSE, 1)
    /\ restored = NewNativeScaler(FALSE, 1)
    /\ sc_phase = "run"
    /\ sc_steps = 0
    /\ scales_run = <<>>
    /\ scales_restored = <<>>
    /\ call_out = NoCall
    /\ streak = 0

\* ------------------------------------------------------------------------
\* CheckpointManager
\* ------------------------------------------------------------------------

\* the state of component k after ver training steps
ComponentState(k, ver) == [of |-> k, ver |-> ver]

\* an integer stored in a record
IntVal(v) == [of |-> "int", ver |-> v]

\* the modules dicts a run can register: the non-empty selections of Components
ModuleNames == {S \in SUBSET Range(Components) : S # {}}

\* a dict as a function; d1.update(d2)
DictUpdate(d1, d2) ==
    [x \in DOMAIN d1 \cup DOMAIN d2 |-> IF x \in DOMAIN d2 THEN d2[x] ELSE d1[x]]

NoDict == [x \in {} |-> IntVal(0)]

\* the save_dict arguments: None, or the epoch the caller records
SaveDicts(e) == {NoDict} \cup {[x \in {"epoch"} |-> IntVal(v)] : v \in {e, e + 1}}

\* self.rank of the manager of process p
ManagerRank(p) == IF dist_init THEN p ELSE 0

ManagerSkipsNever(p) == FALSE

\* if self.rank != 0: return
ManagerSkips(p) == ManagerRank(p) # 0

\* module.state_dict()
state_dict(st) == st

\* CheckpointManager.create_state_dict
create_state_dict(p, save_dict) ==
    DictUpdate([k \in DOMAIN modules[p] |-> state_dict(modules[p][k])], save_dict)

\* the condition under which checkpoint writes the numbered snapshot
SnapshotDue(e) ==
    /\ save_freq # {}
    /\ \/ \E f \in save_freq : e % f = 0
       \/ e \in save_list

\* torch.save(state, checkpoint_<epoch>.pth)
WriteSnapshot(snaps, e, state) ==
    [x \in DOMAIN snaps \cup {e} |-> IF x = e THEN state ELSE snaps[x]]

\* the components of process p in registration order
ModuleOrder(p) == SelectSeq(Components, LAMBDA k : k \in DOMAIN modules[p])

\* the loop of resume over the first n components: those the record holds are
\* loaded in order, up to the first one it lacks
RECURSIVE LoadLoopModelOnly(_, _, _, _)
LoadLoopModelOnly(mods, order, record, i) ==
    IF i > Len(order) THEN [mods |-> mods, err |-> FALSE]
    ELSE IF "model" \notin DOMAIN record THEN [mods |-> mods, err |-> TRUE]
    ELSE LoadLoopModelOnly([mods EXCEPT ![order[i]] = record["model"]], order,
                           record, i + 1)

LoadLoopAllOrNothing(mods, order, record, i) ==
    IF \E j \in DOMAIN order : order[j] \notin DOMAIN record
    THEN [mods |-> mods, err |-> TRUE]
    ELSE [mods |-> [k \in DOMAIN mods |-> record[k]], err |-> FALSE]

RECURSIVE LoadLoopSkipMissing(_, _, _, _)
LoadLoopSkipMissing(mods, order, record, i) ==
    IF i > Len(order) THEN [mods |-> mods, err |-> FALSE]
    ELSE IF order[i] \notin DOMAIN record
    THEN LoadLoopSkipMissing(mods, order, record, i + 1)
    ELSE LoadLoopSkipMissing([mods EXCEPT ![order[i]] = record[order[i]]], order,
                             record, i + 1)

RECURSIVE LoadLoop(_, _, _, _)
LoadLoop(mods, order, record, i) ==
    IF i > Len(order) THEN [mods |-> mods, err |-> FALSE]
    ELSE IF order[i] \notin DOMAIN record THEN [mods |-> mods, err |-> TRUE]
    ELSE LoadLoop([mods EXCEPT ![order[i]] = record[order[i]]], order, record, i + 1)

\* start_epoch = checkpoint['epoch']
ResumeEpoch(record) == [st |-> "ok", seq |-> record["epoch"].ver]

\* CheckpointManager.checkpoint(epoch, save_dict) on process p
Checkpoint(p, e, save_dict) ==
    /\ n_ckpt < MaxCkpts
    /\ n_ckpt' = n_ckpt + 1
    /\ returned' = NotCalled
    /\ IF ManagerSkips(p)
       THEN UNCHANGED <<latest, latest_torn, snapshots, taken>>
       ELSE LET state == create_state_dict(p, save_dict)
            IN  /\ latest' = <<state>>
                /\ latest_torn' = FALSE
                /\ snapshots' = IF SnapshotDue(e)
                                THEN WriteSnapshot(snapshots, e, state)
                                ELSE snapshots
                /\ taken' = [mods |-> modules[p], epoch |-> e, save_dict |-> save_dict]
    /\ UNCHANGED <<save_freq, save_list, modules>>
    /\ UNCHANGED notCkpt

\* CheckpointManager.resume() on process p
Resume(p) ==
    /\ IF latest = <<>>
       THEN /\ returned' = [st |-> "ok", seq |-> 0]
            /\ UNCHANGED modules
       ELSE IF latest_torn
       THEN /\ returned' = Raise("UnpicklingError")
            /\ UNCHANGED modules
       ELSE LET record == latest[1]
                loaded == LoadLoop(modules[p], ModuleOrder(p), record, 1)
            IN  /\ modules' = [modules EXCEPT ![p] = loaded.mods]
                /\ returned' = IF loaded.err \/ "epoch" \notin DOMAIN record
                               THEN Raise("KeyError")
                               ELSE ResumeEpoch(record)
    /\ UNCHANGED <<save_freq, save_list, latest, latest_torn, snapshots, taken,
                   n_ckpt>>
    /\ UNCHANGED notCkpt

\* a training step of the job: the ranks step together (the step holds
\* collectives), and every component of every process changes state
Train ==
    /\ \E p \in Procs : \E k \in DOMAIN modules[p] : modules[p][k].ver < MaxTrain
    /\ modules' = [p \in Procs |->
                      [k \in DOMAIN modules[p] |->
                          ComponentState(k, Min(modules[p][k].ver + 1, MaxTrain))]]
    /\ returned' = NotCalled
    /\ UNCHANGED <<save_freq, save_list, latest, latest_torn, snapshots, taken,
                   n_ckpt>>
    /\ UNCHANGED notCkpt

\* the component names the running job registered
Registered == DOMAIN modules[0]

FreshModules(names) == [k \in names |-> ComponentState(k, 0)]

\* the job is started anew over the same checkpoint directory: every process
\* constructs its components and a CheckpointManager over them
Restart(names) ==
    /\ \E p \in Procs : modules[p] # FreshModules(names)
    /\ modules' = [p \in Procs |-> FreshModules(names)]
    /\ returned' = NotCalled
    /\ UNCHANGED <<save_freq, save_list, latest, latest_torn, snapshots, taken,
                   n_ckpt>>
    /\ UNCHANGED notCkpt

\* CheckpointManager.checkpoint on process p when the process dies inside
\* torch.save(state, checkpoint_latest.pth): the file was opened for writing
\* and holds a part of the bytes.  The job ends with the process and is
\* started anew over the same directory.
CheckpointCrash(p, e, save_dict) ==
    /\ n_ckpt < MaxCkpts
    /\ ~ManagerSkips(p)
    /\ n_ckpt' = n_ckpt + 1
    /\ latest' = <<create_state_dict(p, save_dict)>>
    /\ latest_torn' = TRUE
    /\ modules' = [q \in Procs |-> FreshModules(Registered)]
    /\ returned' = NotCalled
    /\ UNCHANGED <<save_freq, save_list, snapshots, taken>>
    /\ UNCHANGED notCkpt

\* the first start of the job, with an empty checkpoint directory and one of
\* the given save configurations
CkptStartWith(configs) ==
    /\ \E c \in configs : save_freq = c[1] /\ save_list = c[2]
    /\ \E names \in ModuleNames : modules = [p \in Procs |-> FreshModules(names)]
    /\ latest = <<>>
    /\ latest_torn = FALSE
    /\ snapshots = [x \in {} |-> NoDict]
    /\ returned = NotCalled
    /\ taken = [mods |-> NoDict, epoch |-> 0, save_dict |-> NoDict]
    /\ n_ckpt = 0

CkptStart == CkptStartWith(SaveConfigs)

\* no CheckpointManager in use
CkptIdle ==
    /\ save_freq = {} /\ save_list = {}
    /\ modules = [p \in Procs |-> FreshModules({})]
    /\ latest = <<>>
    /\ latest_torn = FALSE
    /\ snapshots = [x \in {} |-> NoDict]
    /\ returned = NotCalled
    /\ taken = [mods |-> NoDict, epoch |-> 0, save_dict |-> NoDict]
    /\ n_ckpt = 0

\* ------------------------------------------------------------------------
\* save_model and auto_load_model
\* ------------------------------------------------------------------------

\* a string is the sequence of its parts: each digit and each of "-", "." and
\* "/" is a part of its own, and no other part holds one of them

DigitChars == <<"0", "1", "2", "3", "4", "5", "6", "7", "8", "9">>

\* str(n), '%d' % n for n >= 0
RECURSIVE Str(_)
Str(n) ==
    IF n < 10 THEN <<DigitChars[n + 1]>>
    ELSE Str(n \div 10) \o <<DigitChars[(n % 10) + 1]>>

\* t.isdigit()
IsDigit(t) == t # <<>> /\ \A i \in DOMAIN t : t[i] \in Range(DigitChars)

DigitVal(ch) == CHOOSE d \in 0..9 : DigitChars[d + 1] = ch

IntOfLastDigit(t) == DigitVal(t[Len(t)])

\* int(t) of a string of digits
RECURSIVE int(_)
int(t) ==
    IF t = <<>> THEN 0
    ELSE int(SubSeq(t, 1, Len(t) - 1)) * 10 + DigitVal(t[Len(t)])

\* s.split(sep)[-1]
SplitLast(s, sep) ==
    LET at == {i \in DOMAIN s : s[i] = sep}
        cut == IF at = {} THEN 0 ELSE CHOOSE i \in at : \A j \in at : j <= i
    IN  SubSeq(s, cut + 1, Len(s))

\* s.split(sep)[0]
SplitFirst(s, sep) ==
    LET at == {i \in DOMAIN s : s[i] = sep}
        cut == IF at = {} THEN Len(s) + 1 ELSE CHOOSE i \in at : \A j \in at : i <= j
    IN  SubSeq(s, 1, cut - 1)

\* os.path.join(output_dir, name)
PathJoin(name) == OutputDir \o <<"/">> \o name

\* output_dir / ('checkpoint-%s.pth' % postfix)
CheckpointPath(postfix) == PathJoin(<<"checkpoint", "-">> \o postfix \o <<".", "pth">>)

\* what model.save_checkpoint(save_dir, tag="checkpoint-%s" % epoch_name) makes
TagPath(postfix) == PathJoin(<<"checkpoint", "-">> \o postfix)

\* glob.glob(os.path.join(output_dir, 'checkpoint-*.pth'))
Glob ==
    {f \in DOMAIN out_dir :
        /\ Len(f) >= Len(PathJoin(<<"checkpoint", "-", ".", "pth">>))
        /\ SubSeq(f, 1, Len(OutputDir) + 3) = PathJoin(<<"checkpoint", "-">>)
        /\ SubSeq(f, Len(f) - 1, Len(f)) = <<".", "pth">>}

\* t = ckpt.split('-')[-1].split('.')[0]
EpochPart(ckpt) == SplitFirst(SplitLast(ckpt, "-"), ".")

\* the loop over all_checkpoints, from latest_ckpt = acc
RECURSIVE LatestCkpt(_, _)
LatestCkpt(all_checkpoints, acc) ==
    IF all_checkpoints = {} THEN acc
    ELSE LET ckpt == CHOOSE f \in all_checkpoints : TRUE
             t == EpochPart(ckpt)
         IN  LatestCkpt(all_checkpoints \ {ckpt},
                        IF IsDigit(t) THEN Max(int(t), acc) ELSE acc)

\* args.resume after the auto-resume block
AutoResumePath ==
    LET latest_ckpt == LatestCkpt(Glob, -1)
        numbered == IF latest_ckpt >= 0 THEN CheckpointPath(Str(latest_ckpt))
                    ELSE args.resume
    IN  IF CheckpointPath(<<"latest">>) \in DOMAIN out_dir
        THEN CheckpointPath(<<"latest">>)
        ELSE numbered

\* get_rank()
get_rank(p) == IF dist_init THEN p ELSE 0

\* is_main_process()
is_main_process(p) == get_rank(p) = 0

\* to_save of save_model
ToSave(e) ==
    [k \in {"model", "optimizer", "epoch", "scaler", "args"} |->
        CASE k = "model" -> job.model
          [] k = "optimizer" -> job.optimizer
          [] k = "epoch" -> e
          [] k = "scaler" -> job.loss_scaler[1]
          [] k = "args" -> 0]

\* what model.save_checkpoint leaves under its tag
TagDir(e) == [k \in {"epoch"} |-> e]

\* torch.save(obj, path) into the directory d
TorchSave(d, path, obj) ==
    [f \in DOMAIN d \cup {path} |-> IF f = path THEN obj ELSE d[f]]

\* save_model(args, epoch, ..., latest, latest_postfix) on process p
SaveModel(p, e, is_latest, latest_postfix) ==
    /\ n_saves < MaxSaves
    /\ n_saves' = n_saves + 1
    /\ IF job.loss_scaler # <<>>
       THEN LET checkpoint_path == IF is_latest THEN CheckpointPath(latest_postfix)
                                   ELSE CheckpointPath(Str(e))
            IN  out_dir' = IF is_main_process(p)
                           THEN TorchSave(out_dir, checkpoint_path, ToSave(e))
                           ELSE out_dir
       ELSE out_dir' = TorchSave(out_dir, TagPath(Str(e)), TagDir(e))
    /\ al_out' = [st |-> "none", auto |-> FALSE, file |-> <<>>]
    /\ UNCHANGED <<args, job>>
    /\ UNCHANGED notAuto

\* auto_load_model(args, model_without_ddp, optimizer, loss_scaler)
AutoLoadModel ==
    LET auto == args.auto_resume /\ Len(args.resume) = 0
        resume == IF auto THEN AutoResumePath ELSE args.resume
    IN  /\ IF resume = <<>>
           THEN /\ al_out' = [st |-> "ok", auto |-> auto, file |-> <<>>]
                /\ args' = [args EXCEPT !.resume = resume]
                /\ job' = job
           ELSE IF resume \notin DOMAIN out_dir
           THEN /\ al_out' = [st |-> "FileNotFoundError", auto |-> auto, file |-> <<>>]
                /\ args' = [args EXCEPT !.resume = resume]
                /\ job' = job
           ELSE LET checkpoint == out_dir[resume]
                    with_optim == {"optimizer", "epoch"} \subseteq DOMAIN checkpoint
                IN  /\ al_out' = [st |-> "ok", auto |-> auto, file |-> resume]
                    /\ args' = [args EXCEPT
                                  !.resume = resume,
                                  !.start_epoch = IF with_optim
                                                  THEN checkpoint["epoch"] + 1
                                                  ELSE @]
                    /\ job' = [job EXCEPT
                                  !.model = checkpoint["model"],
                                  !.optimizer = IF with_optim
                                                THEN checkpoint["optimizer"]
                                                ELSE @,
                                  !.loss_scaler =
                                      IF with_optim /\ "scaler" \in DOMAIN checkpoint
                                      THEN <<checkpoint["scaler"]>>
                                      ELSE @]
        /\ UNCHANGED <<out_dir, n_saves>>
        /\ UNCHANGED notAuto

\* a training step of the process
TrainStep ==
    /\ job.model < MaxTrain
    /\ job' = [model |-> job.model + 1,
               optimizer |-> job.optimizer + 1,
               loss_scaler |-> IF job.loss_scaler = <<>> THEN <<>>
                               ELSE <<job.loss_scaler[1] + 1>>]
    /\ al_out' = [st |-> "none", auto |-> FALSE, file |-> <<>>]
    /\ UNCHANGED <<out_dir, args, n_saves>>
    /\ UNCHANGED notAuto

NoFiles == [f \in {} |-> TagDir(0)]

\* a process at its start over an empty output directory, with or without
\* --auto_resume and --resume, and with a loss scaler or without one
AutoStart ==
    /\ out_dir = NoFiles
    /\ \E a \in BOOLEAN, r \in {<<>>, CheckpointPath(Str(0))} :
          args = [auto_resume |-> a, resume |-> r, start_epoch |-> 0]
    /\ \E ls \in {<<>>, <<0>>} : job = [model |-> 0, optimizer |-> 0, loss_scaler |-> ls]
    /\ al_out = [st |-> "none", auto |-> FALSE, file |-> <<>>]
    /\ n_saves = 0

\* save_model and auto_load_model not in use
AutoIdle ==
    /\ out_dir = NoFiles
    /\ args = [auto_resume |-> FALSE, resume |-> <<>>, start_epoch |-> 0]
    /\ job = [model |-> 0, optimizer |-> 0, loss_scaler |-> <<>>]
    /\ al_out = [st |-> "none", auto |-> FALSE, file |-> <<>>]
    /\ n_saves = 0

\* ------------------------------------------------------------------------
\* NodeDistributedSampler
\* ------------------------------------------------------------------------

Ranks == 0..(num_replicas - 1)

\* torch.randperm(n, generator=g) after g.manual_seed(seed): a fixed ordering
\* for every seed.  The ordering for seed 0 is any ordering (gen); the one for
\* seed e is gen rotated by e places, so that distinct seeds below n give
\* distinct orderings.
randperm(n, seed) == [i \in 1..n |-> gen[((i - 1 + seed) % n) + 1]]

\* self.num_samples
num_samples == CeilDiv(dataset_len, num_replicas)

\* self.total_size_parts
total_size_parts == (num_samples * num_replicas) \div num_parts

\* local_rank as the launcher sets it: rank mod local_size
local_rank(r) == r % num_parts

\* the ordering __iter__ starts from
base_indices(e) == IF shuffle THEN randperm(dataset_len, e) ELSE Arange(dataset_len)

node_indices_unfiltered(r, e) == base_indices(e)

\* indices = [i for i in indices if i % self.num_parts == self.local_rank]
node_indices(r, e) ==
    SelectSeq(base_indices(e), LAMBDA i : i % num_parts = local_rank(r))

\* indices += indices[:(self.total_size_parts - len(indices))]
padded_indices(r, e) ==
    LET ind == node_indices(r, e)
    IN  ind \o PySlice(ind, 0, total_size_parts - Len(ind), 1)

\* one run of __iter__ on rank r with self.epoch = e
SamplerIter(r, e) ==
    LET ind  == padded_indices(r, e)
        step == num_replicas \div num_parts
    IN  IF Len(ind) # total_size_parts THEN Raise("AssertionError")
        ELSE IF step = 0 THEN Raise("ValueError")
        ELSE LET sub == PySlice(ind, r \div num_parts, total_size_parts, step)
             IN  IF Len(sub) # num_samples THEN Raise("AssertionError")
                 ELSE Ok(sub)

\* __len__
SamplerLen == num_samples

EpochAfterIterBumped(e) == Min(e + 1, MaxEpoch)

\* self.epoch after __iter__: the method does not assign it
EpochAfterIter(e) == e

\* set_epoch(e) on rank r
SetEpoch(r, e) ==
    /\ r \in driven
    /\ epoch' = [epoch EXCEPT ![r] = e]
    /\ last_set' = [last_set EXCEPT ![r] = e]
    /\ UNCHANGED <<dataset_len, num_replicas, num_parts, shuffle, gen, driven,
                   yielded, yield_under, yield_again, first_yield>>
    /\ UNCHANGED notSampler

\* iter(sampler) on rank r
Iterate(r) ==
    /\ r \in driven
    /\ LET out == SamplerIter(r, epoch[r])
       IN  /\ yielded' = [yielded EXCEPT ![r] = out]
           /\ yield_under' = [yield_under EXCEPT ![r] = last_set[r]]
           /\ yield_again' = [yield_again EXCEPT
                                ![r] = last_set[r] \in DOMAIN first_yield[r]]
           /\ first_yield' =
                 IF last_set[r] \in DOMAIN first_yield[r] THEN first_yield
                 ELSE [first_yield EXCEPT
                          ![r] = [x \in DOMAIN @ \cup {last_set[r]} |->
                                    IF x = last_set[r] THEN out ELSE @[x]]]
    /\ epoch' = [epoch EXCEPT ![r] = EpochAfterIter(@)]
    /\ UNCHANGED <<dataset_len, num_replicas, num_parts, shuffle, gen, driven,
                   last_set>>
    /\ UNCHANGED notSampler

\* the configurations: every dataset length, world size, local size, shuffle
\* setting and generator
SamplerConfig ==
    /\ dataset_len \in 1..MaxN
    /\ num_replicas \in 1..MaxW
    /\ num_parts \in 1..MaxW
    /\ shuffle \in BOOLEAN
    /\ gen \in IF shuffle THEN Orderings(dataset_len) ELSE {Arange(dataset_len)}

EmptyFn == [x \in {} |-> NotCalled]

SamplerStart ==
    /\ epoch = [r \in 0..(num_replicas - 1) |-> 0]
    /\ last_set = [r \in 0..(num_replicas - 1) |-> 0]
    /\ yielded = [r \in 0..(num_replicas - 1) |-> NotCalled]
    /\ yield_under = [r \in 0..(num_replicas - 1) |-> 0]
    /\ yield_again = [r \in 0..(num_replicas - 1) |-> FALSE]
    /\ first_yield = [r \in 0..(num_replicas - 1) |-> EmptyFn]

\* no sampler in use
SamplerIdle ==
    /\ dataset_len = 1 /\ num_replicas = 1 /\ num_parts = 1
    /\ shuffle = FALSE /\ gen = Arange(1) /\ driven = {}
    /\ SamplerStart

\* every rank's sampler constructed and given the same epoch by set_epoch
InitPartition ==
    /\ GroupIdle /\ MeterStart /\ CkptIdle /\ GatherIdle /\ ScalerIdle /\ LogIdle /\ AutoIdle /\ LoggerIdle
    /\ SamplerConfig
    /\ driven = 0..(num_replicas - 1)
    /\ \E e \in 0..MaxEpoch :
          /\ epoch = [r \in 0..(num_replicas - 1) |-> e]
          /\ last_set = [r \in 0..(num_replicas - 1) |-> e]
    /\ yielded = [r \in 0..(num_replicas - 1) |-> NotCalled]
    /\ yield_under = [r \in 0..(num_replicas - 1) |-> 0]
    /\ yield_again = [r \in 0..(num_replicas - 1) |-> FALSE]
    /\ first_yield = [r \in 0..(num_replicas - 1) |-> EmptyFn]

NextPartition == \E r \in Ranks : Iterate(r)

\* the ranks of one epoch each iterate their sampler
SpecPartition == InitPartition /\ [][NextPartition]_vars

\* one rank's sampler, as constructed (self.epoch = 0)
InitSamplerRun ==
    /\ GroupIdle /\ MeterStart /\ CkptIdle /\ GatherIdle /\ ScalerIdle /\ LogIdle /\ AutoIdle /\ LoggerIdle
    /\ SamplerConfig
    /\ \E r \in 0..(num_replicas - 1) : driven = {r}
    /\ epoch = [r \in 0..(num_replicas - 1) |-> 0]
    /\ last_set = [r \in 0..(num_replicas - 1) |-> 0]
    /\ yielded = [r \in 0..(num_replicas - 1) |-> NotCalled]
    /\ yield_under = [r \in 0..(num_replicas - 1) |-> 0]
    /\ yield_again = [r \in 0..(num_replicas - 1) |-> FALSE]
    /\ first_yield = [r \in 0..(num_replicas - 1) |-> EmptyFn]

NextSamplerRun ==
    \/ \E r \in Ranks, e \in 0..MaxEpoch : SetEpoch(r, e)
    \/ \E r \in Ranks : Iterate(r)

\* one sampler through any interleaving of set_epoch and iteration
SpecSamplerRun == InitSamplerRun /\ [][NextSamplerRun]_vars

\* ------------------------------------------------------------------------
\* Specification of the meters
\* ------------------------------------------------------------------------

InitMeter ==
    GroupConfig /\ MeterStart /\ SamplerIdle /\ CkptIdle /\ GatherIdle /\ ScalerIdle
    /\ LogIdle /\ AutoIdle /\ LoggerIdle

NextMeter ==
    \/ \E r \in Procs, v \in Values : Update(r, v)
    \/ \E r \in Procs : SyncCall(r)
    \/ BarrierPass
    \/ AllReduceDone
    \/ \E r \in Procs : SyncReturn(r)

\* every rank updates and synchronizes its meter
SpecMeter == InitMeter /\ [][NextMeter]_vars

\* ------------------------------------------------------------------------
\* Specification of repeated synchronization
\* ------------------------------------------------------------------------

InitResync ==
    GroupUp /\ MeterUpdated /\ SamplerIdle /\ CkptIdle /\ GatherIdle /\ ScalerIdle /\ LogIdle /\ AutoIdle /\ LoggerIdle

NextResync ==
    \/ \E r \in Procs : SyncCall(r)
    \/ BarrierPass
    \/ AllReduceDone
    \/ \E r \in Procs : SyncReturn(r)

\* the ranks synchronize their meters again and again without updating them
SpecResync == InitResync /\ [][NextResync]_vars

\* ------------------------------------------------------------------------
\* Specification of log_every
\* ------------------------------------------------------------------------

InitLogEvery ==
    /\ GroupIdle /\ MeterStart /\ SamplerIdle /\ CkptIdle /\ GatherIdle
    /\ ScalerIdle /\ LogStart /\ AutoIdle /\ LoggerIdle

NextLogEvery == \E dt1, dt2 \in Elapsed : LogNext(dt1, dt2)

\* a consumer iterates one log_every generator to exhaustion
SpecLogEvery == InitLogEvery /\ [][NextLogEvery]_vars

\* ------------------------------------------------------------------------
\* Specification of the checkpoints
\* ------------------------------------------------------------------------

InitCkpt ==
    GroupConfig /\ MeterStart /\ SamplerIdle /\ CkptStart /\ GatherIdle /\ ScalerIdle
    /\ LogIdle /\ AutoIdle /\ LoggerIdle

NextCkpt ==
    \/ \E p \in Procs, e \in 0..MaxEpoch : \E sd \in SaveDicts(e) : Checkpoint(p, e, sd)
    \/ \E p \in Procs : Resume(p)
    \/ Train
    \/ \E names \in {Registered} : Restart(names)

\* the processes of a job train, checkpoint, restart and resume
SpecCkpt == InitCkpt /\ [][NextCkpt]_vars

\* ------------------------------------------------------------------------
\* Specification of the checkpoints with crashes
\* ------------------------------------------------------------------------

NextCkptCrash ==
    \/ NextCkpt
    \/ \E p \in Procs : \E e \in 0..MaxEpoch : \E sd \in SaveDicts(e) :
          CheckpointCrash(p, e, sd)

\* as SpecCkpt, and a checkpoint call may end in the death of its process
SpecCkptCrash == InitCkpt /\ [][NextCkptCrash]_vars

\* ------------------------------------------------------------------------
\* Specification of the checkpoints across runs with other components
\* ------------------------------------------------------------------------

NextCkptNames ==
    \/ \E p \in Procs : \E e \in 0..MaxEpoch : \E sd \in SaveDicts(e) :
          Checkpoint(p, e, sd)
    \/ \E p \in Procs : Resume(p)
    \/ \E names \in ModuleNames : Restart(names)

\* runs over one checkpoint directory, each registering its own components
SpecCkptNames == InitCkpt /\ [][NextCkptNames]_vars

\* ------------------------------------------------------------------------
\* Specification of the checkpoints across trained runs with other components
\* ------------------------------------------------------------------------

\* a single process without a process group, and no numbered snapshots
InitCkptTrainedNames ==
    /\ GroupIdle /\ MeterStart /\ SamplerIdle /\ GatherIdle /\ ScalerIdle
    /\ LogIdle /\ AutoIdle /\ LoggerIdle
    /\ CkptStartWith({<<{}, {}>>})

NextCkptTrainedNames ==
    \/ NextCkptNames
    \/ Train

\* runs of one process over one checkpoint directory, each registering its
\* own components and training them between the calls
SpecCkptTrainedNames == InitCkptTrainedNames /\ [][NextCkptTrainedNames]_vars

\* ------------------------------------------------------------------------
\* Specification of the checkpoints under every save configuration
\* ------------------------------------------------------------------------

InitCkptConfigs ==
    /\ GroupConfig /\ MeterStart /\ SamplerIdle /\ GatherIdle /\ ScalerIdle /\ LogIdle /\ AutoIdle /\ LoggerIdle
    /\ CkptStartWith(AllSaveConfigs)

NextCkptConfigs ==
    \/ \E p \in Procs : \E e \in 0..MaxEpoch : \E sd \in SaveDicts(e) :
          Checkpoint(p, e, sd)
    \/ Train

\* the processes of one run train and checkpoint
SpecCkptConfigs == InitCkptConfigs /\ [][NextCkptConfigs]_vars

\* ------------------------------------------------------------------------
\* Specification of save_model and auto_load_model
\* ------------------------------------------------------------------------

InitAutoLoad ==
    /\ GroupConfig /\ MeterStart /\ SamplerIdle /\ CkptIdle /\ GatherIdle
    /\ ScalerIdle /\ LogIdle /\ AutoStart /\ LoggerIdle

NextAutoLoad ==
    \/ \E p \in Procs, e \in SavedEpochs, is_latest \in BOOLEAN :
          \E latest_postfix \in LatestPostfixes : SaveModel(p, e, is_latest, latest_postfix)
    \/ AutoLoadModel
    \/ TrainStep

\* a process trains, saves into its output directory and loads from it
SpecAutoLoad == InitAutoLoad /\ [][NextAutoLoad]_vars

\* ------------------------------------------------------------------------
\* Specification of MetricLogger.synchronize_between_processes
\* ------------------------------------------------------------------------

InitLoggerSync ==
    /\ GroupConfig /\ MeterStart /\ SamplerIdle /\ CkptIdle /\ GatherIdle
    /\ ScalerIdle /\ LogIdle /\ AutoIdle /\ LoggerStart

NextLoggerSync ==
    \/ \E r \in Procs, k \in MeterNames, v \in LoggedValues : LoggerUpdate(r, k, v)
    \/ \E r \in Procs : LoggerSync(r)
    \/ LoggerBarrierPass
    \/ LoggerAllReduceDone
    \/ \E r \in Procs : LoggerNextMeter(r)

\* every rank feeds its logger and calls synchronize_between_processes once
SpecLoggerSync == InitLoggerSync /\ [][NextLoggerSync]_vars

\* the same, where every rank does call synchronize_between_processes and
\* goes on running, and a collective that every rank has entered completes
SpecLoggerSyncFair ==
    /\ SpecLoggerSync
    /\ \A r \in 0..MaxRanks : WF_vars(LoggerSync(r)) /\ WF_vars(LoggerNextMeter(r))
    /\ WF_vars(LoggerBarrierPass)
    /\ WF_vars(LoggerAllReduceDone)

\* ------------------------------------------------------------------------
\* Specification of the gather
\* ------------------------------------------------------------------------

InitGather ==
    GroupUp /\ MeterStart /\ SamplerIdle /\ CkptIdle /\ GatherStart /\ ScalerIdle /\ LogIdle /\ AutoIdle /\ LoggerIdle

NextGather ==
    \/ \E r \in Procs : Forward(r)
    \/ AllGatherDone
    \/ \E r \in Procs : \E g \in [1..world_size -> GradValues] : Backward(r, g)
    \/ AllReduceGradsDone

\* every rank runs one forward and one backward of GatherLayer
SpecGather == InitGather /\ [][NextGather]_vars

\* ------------------------------------------------------------------------
\* Specification of the scaler
\* ------------------------------------------------------------------------

InitScaler ==
    /\ GroupIdle /\ MeterStart /\ SamplerIdle /\ CkptIdle /\ GatherIdle
    /\ ScalerStart /\ LogIdle /\ AutoIdle /\ LoggerIdle

NextScaler ==
    \/ \E found_inf, update_grad \in BOOLEAN : Step(found_inf, update_grad)
    \/ \E enabled \in BOOLEAN : \E gi \in 1..MaxInterval : SaveAndLoad(enabled, gi)
    \/ \E found_inf, update_grad \in BOOLEAN : ReplayStep(found_inf, update_grad)

\* a run of steps, split at some point by saving its state into a fresh scaler
SpecScaler == InitScaler /\ [][NextScaler]_vars

\* ------------------------------------------------------------------------
\* Specification of the scaler's steps
\* ------------------------------------------------------------------------

NextScalerCalls ==
    \E update_grad \in BOOLEAN :
        \E clip \in {{}} \cup {{c} : c \in ClipValues} :
            \E params \in {NoParams} \cup ParamLists :
                Call(update_grad, clip, params)

\* a run of __call__ steps with any gradients and arguments
SpecScalerCalls == InitScaler /\ [][NextScalerCalls]_vars

\* ------------------------------------------------------------------------
\* Properties of GatherLayer
\* ------------------------------------------------------------------------

\* both of 2 ranks were given the same upstream gradient and backward returned
SameUpstreamOnTwoRanks ==
    /\ world_size = 2
    /\ \A r \in Procs : g_pc[r] = "done"
    /\ upstream[0] = upstream[1]

\* C6: with 2 ranks, when backward on each rank receives the gradient
\* [g0, g1], rank 0 returns g0 and rank 1 returns g1.
C6_BackwardReturnsOwnSlot ==
    SameUpstreamOnTwoRanks =>
        \A r \in Procs : grad_out[r] = <<upstream[r][r + 1]>>

\* C6 amended: with 2 ranks, when backward on each rank receives the gradient
\* [g0, g1], rank 0 returns 2 * g0 and rank 1 returns 2 * g1: slot r of the
\* sum of the two ranks' gradients.
C6_BackwardReturnsSummedSlot ==
    SameUpstreamOnTwoRanks =>
        \A r \in Procs : grad_out[r] = <<2 * upstream[r][r + 1]>>

\* both ranks were given [1, 1] and backward returned
C6_Witness ==
    /\ SameUpstreamOnTwoRanks
    /\ upstream[0] = <<1, 1>>

\* C23: backward on rank r returns slot r of the element-wise sum over all
\* ranks of the upstream gradients the ranks passed in, whatever the other
\* slots of those gradients hold.
C23_BackwardReturnsSlotOfSum ==
    \A r \in Procs :
        g_pc[r] = "done" =>
            grad_out[r] = <<SumOver(Procs, [q \in Procs |-> upstream[q][r + 1]])>>

\* the ranks passed in different gradients with 1 in slot 0 on each, and
\* backward returned the number of ranks on rank 0
C23_Witness ==
    /\ world_size > 1
    /\ \A r \in Procs : g_pc[r] = "done" /\ upstream[r][1] = 1
    /\ upstream[0] # upstream[1]
    /\ grad_out[0] = <<world_size>>

\* C7: once all ranks called forward, slot i of the result on every rank is
\* rank i's input shard, and every rank's input is what it was at the call.
C7_ForwardSlotsAreRankInputs ==
    \A r \in Procs :
        g_pc[r] \in {"gathered", "all_reduce", "done"} =>
            /\ Len(output[r]) = world_size
            /\ \A i \in Procs : output[r][i + 1] = g_given[i]
            /\ g_input[r] = g_given[r]

\* forward returned on more than one rank, the ranks holding different shards
C7_Witness ==
    /\ world_size > 1
    /\ \A r \in Procs : g_pc[r] = "gathered"
    /\ g_given[0] # g_given[1]

\* ------------------------------------------------------------------------
\* Properties of NativeScalerWithGradNormCount
\* ------------------------------------------------------------------------

\* the last __call__ was an update step that returned
UpdateStep == call_out.kind = "update" /\ call_out.st = "ok"

\* the update steps without overflow since the last overflow make a whole
\* number of growth intervals
GrowthDue == streak > 0 /\ streak % nscaler.scaler.growth_interval = 0

\* what C15 says of an update step
OverflowRule ==
    IF call_out.found_inf
    THEN ~call_out.stepped /\ GetScale(nscaler) < call_out.scale_before
    ELSE /\ call_out.stepped
         /\ GetScale(nscaler) =
               IF GrowthDue THEN call_out.scale_before + 1 ELSE call_out.scale_before

\* C15: on every update step, an overflow skips the optimizer step and
\* shrinks the scale; otherwise the optimizer steps, and the scale grows
\* exactly when growth_interval update steps without overflow have
\* accumulated since the last growth or overflow.
C15_EveryUpdateStepFollowsOverflowRule == UpdateStep => OverflowRule

\* C15 amended: the rule holds on every update step of a scaler constructed
\* with enabled=True; with enabled=False every update step performs the
\* optimizer step and the scale stays as it is.
C15_EnabledUpdateStepFollowsOverflowRule ==
    UpdateStep =>
        IF nscaler.enabled THEN OverflowRule
        ELSE call_out.stepped /\ GetScale(nscaler) = call_out.scale_before

\* an enabled scaler with growth_interval 2 overflowed, then made two update
\* steps without overflow, and grew on the second
C15_Witness ==
    /\ UpdateStep /\ nscaler.enabled /\ ~call_out.found_inf
    /\ nscaler.scaler.growth_interval = 2 /\ streak = 2
    /\ call_out.scale_before = 15 /\ GetScale(nscaler) = 16

\* norm n is a finite norm of at most c
NormAtMost(n, c) == n.k = "num" /\ n.exp = 0 /\ n.sq <= c * c

\* the clip threshold of the last call
ClipOf == CHOOSE c \in call_out.clip : TRUE

AccumulateStep == call_out.kind = "accumulate"

\* C17: a call with update_grad false does no unscale, no optimizer step and
\* no scale update, leaves the scale and the growth counter as they were, and
\* returns None as the norm.
C17_AccumulationStepChangesNothing ==
    AccumulateStep =>
        /\ ~call_out.unscaled /\ ~call_out.stepped
        /\ GetScale(nscaler) = call_out.scale_before
        /\ nscaler.scaler.growth_tracker = call_out.tracker_before
        /\ call_out.norm = NoNorm
        /\ call_out.st = "ok"

\* an enabled scaler with a clean update step behind it took a call with
\* update_grad false whose gradients overflowed
C17_Witness ==
    /\ AccumulateStep /\ nscaler.enabled
    /\ call_out.tracker_before = 1
    /\ call_out.left = InfNorm

\* C8: after state_dict() of a run was loaded into a fresh scaler constructed
\* with the same enabled flag, replaying the same outcomes gives the restored
\* scaler the scale trajectory of the run that was never serialized.
C8_RestoredScalerFollowsRun ==
    (sc_phase = "replay" /\ restored.enabled = nscaler.enabled) =>
        /\ scales_restored = scales_run
        /\ GetScale(restored) = GetScale(nscaler)

\* an enabled run was split after its scale had moved, and the scale moved
\* again on both scalers in the replay
C8_Witness ==
    /\ sc_phase = "replay" /\ nscaler.enabled /\ restored.enabled
    /\ Len(scales_run) >= 2
    /\ scales_restored = scales_run
    /\ scales_run[1] # 16
    /\ scales_run[2] # scales_run[1]

\* ------------------------------------------------------------------------
\* Properties of CheckpointManager
\* ------------------------------------------------------------------------

\* a latest record exists and holds an entry for every component of process p
Resumable(p) == latest # <<>> /\ DOMAIN modules[p] = DOMAIN taken.mods

\* C4: when a process with the same component names calls resume() after the
\* leader's checkpoint call, every component of the process then holds the
\* state that component had on the leader when checkpoint was called.
C4_ResumeRestoresCheckpointedState ==
    [][\A p \in Procs : (Resume(p) /\ Resumable(p)) => modules'[p] = taken.mods]_vars

\* after a restart, one process resumed into the trained state of the
\* checkpoint while another still holds its fresh components
C4_Witness ==
    /\ latest # <<>> /\ returned.st # "none"
    /\ \E p, q \in Procs :
          /\ modules[p] = taken.mods
          /\ \A k \in DOMAIN modules[p] : modules[p][k].ver > 0
          /\ modules[q] = FreshModules(Registered)

\* C5: after the leader's checkpoint(epoch=e) wrote the latest
\* record, resume() returns e + 1.
C5_ResumeReturnsEpochPlusOne ==
    [][\A p \in Procs :
          (Resume(p) /\ Resumable(p)) =>
              returned' = [st |-> "ok", seq |-> taken.epoch + 1]]_vars

\* C12: the latest record that resume() would read is a complete record at
\* every point, a checkpoint call cut short by a crash included.
C12_LatestIsAlwaysComplete == latest # <<>> => ~latest_torn

\* C13: once the numbered snapshot of epoch e is written, no later checkpoint
\* or resume changes its content.
C13_SnapshotsAreWriteOnce ==
    [][\A e \in DOMAIN snapshots :
          e \in DOMAIN snapshots' /\ snapshots'[e] = snapshots[e]]_vars

\* the latest record is readable and lacks a component of process p
LacksComponent(p) ==
    /\ latest # <<>> /\ ~latest_torn
    /\ \E k \in DOMAIN modules[p] : k \notin DOMAIN latest[1]

\* the latest record is readable and lacks the epoch field
LacksEpoch ==
    /\ latest # <<>> /\ ~latest_torn
    /\ "epoch" \notin DOMAIN latest[1]

\* C14: resume() on a latest record that lacks the entry of a registered
\* component, or the epoch field, raises an error and returns no start epoch.
C14_ResumeFailsOnIncompleteRecord ==
    [][\A p \in Procs :
          (Resume(p) /\ (LacksComponent(p) \/ LacksEpoch)) =>
              returned'.st \notin {"ok", "none"}]_vars

\* resume() raised on a record that has the epoch field and lacks a component
C14_Witness ==
    /\ returned.st = "KeyError"
    /\ ~LacksEpoch
    /\ \E p \in Procs : LacksComponent(p)

\* epoch e is a multiple of the period, or is in the allow-list
OnPeriodOrList(e) == (\E f \in save_freq : e % f = 0) \/ e \in save_list

\* C21: a checkpoint(e) call on the leader writes the latest record; when e
\* is a multiple of the period or is in save_list it also writes the numbered
\* snapshot of e with the content of the latest record, and otherwise it
\* writes no numbered snapshot.
C21_SnapshotOnPeriodOrList ==
    [][\A p \in Procs : \A e \in 0..MaxEpoch : \A sd \in SaveDicts(e) :
          (Checkpoint(p, e, sd) /\ ~ManagerSkips(p)) =>
              /\ latest' = <<create_state_dict(p, sd)>>
              /\ IF OnPeriodOrList(e)
                 THEN e \in DOMAIN snapshots' /\ snapshots'[e] = latest'[1]
                 ELSE snapshots' = snapshots]_vars

\* the place in the registration order of process p of the first component the
\* latest record lacks
FirstMissing(p) ==
    CHOOSE i \in DOMAIN ModuleOrder(p) :
        /\ ModuleOrder(p)[i] \notin DOMAIN latest[1]
        /\ \A j \in 1..(i - 1) : ModuleOrder(p)[j] \in DOMAIN latest[1]

\* C26: when resume() fails because the latest record lacks the entry of a
\* component, the components registered before that one hold the record's
\* state, and that one and the components registered after it hold the state
\* they had before the call.
C26_FailedResumeKeepsPartialLoad ==
    [][\A p \in Procs :
          (Resume(p) /\ LacksComponent(p)) =>
              /\ returned'.st = "KeyError"
              /\ \A i \in DOMAIN ModuleOrder(p) :
                    LET k == ModuleOrder(p)[i]
                    IN  modules'[p][k] = IF i < FirstMissing(p)
                                         THEN latest[1][k]
                                         ELSE modules[p][k]]_vars

\* resume() raised on a record of a trained model without an optimizer entry:
\* the model of the process holds the record's state and its optimizer is
\* still fresh
C26_Witness ==
    /\ returned.st = "KeyError"
    /\ latest # <<>> /\ DOMAIN latest[1] \cap Range(Components) = {"model"}
    /\ latest[1]["model"].ver > 0
    /\ \E p \in Procs :
          /\ DOMAIN modules[p] = {"model", "optimizer"}
          /\ modules[p]["model"] = latest[1]["model"]
          /\ modules[p]["optimizer"].ver = 0

\* C10: a step that changes the latest record or a numbered snapshot is a
\* checkpoint call of rank 0, and a checkpoint call of any other rank changes
\* no file.
C10_OnlyLeaderWrites ==
    [][/\ (latest' # latest \/ snapshots' # snapshots) =>
              \E e \in 0..MaxEpoch : \E sd \in SaveDicts(e) : Checkpoint(0, e, sd)
       /\ \A p \in Procs \ {0} :
              (\E e \in 0..MaxEpoch : \E sd \in SaveDicts(e) : Checkpoint(p, e, sd)) =>
                  (latest' = latest /\ snapshots' = snapshots)]_vars

\* ranks other than 0 made every checkpoint call so far and no file exists
C10_Witness ==
    /\ dist_init /\ world_size > 1
    /\ n_ckpt = MaxCkpts /\ latest = <<>> /\ DOMAIN snapshots = {}

\* ------------------------------------------------------------------------
\* Properties of save_model and auto_load_model
\* ------------------------------------------------------------------------

\* the greatest element of a non-empty set of integers
Greatest(S) == CHOOSE x \in S : \A y \in S : y <= x

\* the epochs n whose checkpoint-<n>.pth is in the output directory
NumberedEpochs ==
    {n \in 0..Greatest(SavedEpochs) : CheckpointPath(Str(n)) \in DOMAIN out_dir}

\* checkpoint-latest.pth where it exists, else the checkpoint-<n>.pth of the
\* largest n, else no file
ResumeFile ==
    IF CheckpointPath(<<"latest">>) \in DOMAIN out_dir
    THEN CheckpointPath(<<"latest">>)
    ELSE IF NumberedEpochs # {} THEN CheckpointPath(Str(Greatest(NumberedEpochs)))
    ELSE <<>>

\* C22: with auto_resume set and no resume path, auto_load_model loads
\* checkpoint-latest.pth where it exists and else the checkpoint-<n>.pth of
\* the largest number n; a record with optimizer and epoch fields sets the
\* start epoch to its epoch plus one; with neither file nothing is loaded.
C22_AutoResumePicksLatestThenHighest ==
    [][(AutoLoadModel /\ args.auto_resume /\ args.resume = <<>>) =>
          /\ al_out' = [st |-> "ok", auto |-> TRUE, file |-> ResumeFile]
          /\ IF ResumeFile = <<>>
             THEN job' = job /\ args'.start_epoch = args.start_epoch
             ELSE LET record == out_dir[ResumeFile]
                  IN  /\ job'.model = record["model"]
                      /\ {"optimizer", "epoch"} \subseteq DOMAIN record =>
                            /\ job'.optimizer = record["optimizer"]
                            /\ args'.start_epoch = record["epoch"] + 1]_vars

\* the directory holds checkpoint-9.pth and checkpoint-10.pth and no latest
\* file, and the call loaded checkpoint-10.pth and set the start epoch to 11
C22_Witness ==
    /\ al_out = [st |-> "ok", auto |-> TRUE, file |-> CheckpointPath(Str(10))]
    /\ CheckpointPath(Str(9)) \in DOMAIN out_dir
    /\ CheckpointPath(<<"latest">>) \notin DOMAIN out_dir
    /\ args.start_epoch = 11

\* ------------------------------------------------------------------------
\* Properties of MetricLogger
\* ------------------------------------------------------------------------

\* every rank has called synchronize_between_processes, so that no rank's
\* logger gets another meter
AllCalled == \A r \in Procs : ml_pc[r] # "idle"

\* every rank called with the same number of meters
EqualMeters ==
    AllCalled /\ \A r, q \in Procs : Len(ml_meters[r]) = Len(ml_meters[q])

\* rank r called with more meters than some other rank
HasMoreMeters(r) ==
    /\ r \in Procs /\ AllCalled
    /\ \E q \in Procs : Len(ml_meters[q]) < Len(ml_meters[r])

\* the call has returned on rank r
ReturnedOn(r) == r \in Procs /\ ml_pc[r] = "returned"

\* rank r waits in dist.barrier()
InBarrier(r) == r \in Procs /\ ml_pc[r] = "barrier"

AllReturned == \A r \in Procs : ReturnedOn(r)

\* C24: when all ranks own the same number of meters, the call of
\* synchronize_between_processes returns on every rank; a rank that owns more
\* meters than another never returns from its call and ends up blocked for
\* ever in dist.barrier().
C24_SyncReturnsIffEqualMeters ==
    /\ EqualMeters ~> AllReturned
    /\ \A r \in 0..(MaxRanks - 1) :
          /\ [](HasMoreMeters(r) => ~ReturnedOn(r))
          /\ HasMoreMeters(r) ~> []InBarrier(r)

\* rank 1 returned from its call with one meter while rank 0 waits in the
\* barrier of its second meter, which only rank 0 has
C24_Witness ==
    /\ world_size > 1
    /\ Len(ml_meters[0]) = 2 /\ Len(ml_meters[1]) = 1
    /\ ml_pc[0] = "barrier" /\ ml_at[0] = 2
    /\ ml_pc[1] = "returned"

\* ------------------------------------------------------------------------
\* Properties of SmoothedValue
\* ------------------------------------------------------------------------

\* every rank made k update calls and then one synchronize call, which returned
UpdatedThenSyncedOnce(k) ==
    \A r \in Procs :
        mpc[r] = "idle" /\ n_syncs[r] = 1 /\ ~dirty[r] /\ fed[r].n = k

\* the sum of every value given to update on any rank
FedSum == SumOver(Procs, [r \in Procs |-> fed[r].sum])

\* sequence s begins with sequence t
BeginsWith(s, t) == Len(t) <= Len(s) /\ SubSeq(s, 1, Len(t)) = t

\* C20: for every finite sequence (the empty one included) and print_freq >=
\* 1, log_every yields the elements of the sequence in order, each once, and
\* then ends without raising.
C20_LogEveryYieldsAllAndEnds ==
    /\ le_pc # "raised"
    /\ BeginsWith(le_items, le_out)
    /\ le_pc = "done" => le_out = le_items

\* every rank's synchronize call number k has returned and the next has not
\* begun
AllSynced(k) == \A r \in Procs : mpc[r] = "idle" /\ n_syncs[r] = k /\ ~dirty[r]

\* the number of update calls made on any rank
FedCount == SumOver(Procs, [r \in Procs |-> fed[r].n])

\* C18: when R >= 2 ranks all call synchronize_between_processes twice with no
\* update in between, every rank ends with count and total equal to R times
\* their values after the first call, which are the sums over the ranks.
C18_SecondSyncMultipliesByWorldSize ==
    (world_size >= 2 /\ AllSynced(2)) =>
        \A r \in Procs :
            /\ meter[r].count = world_size * FedCount
            /\ meter[r].total = world_size * FedSum

\* two ranks with different updates behind them have synchronized twice
C18_Witness ==
    /\ world_size = 2 /\ AllSynced(2)
    /\ fed[0].n = 2 /\ fed[1].n = 1
    /\ meter[0].count = 6

\* the last n elements of s
LastOf(s, n) == SubSeq(s, Len(s) - n + 1, Len(s))

C3_SyncedGlobalAverage ==
    \A k \in 1..MaxUpdates :
        UpdatedThenSyncedOnce(k) =>
            \A r \in Procs :
                /\ meter[r].count = k * world_size
                /\ meter[r].total = FedSum
                /\ global_avg(meter[r]) =
                      [st |-> "ok", seq |-> Quot(FedSum, k * world_size)]

\* two ranks, two updates each with different sums, synchronized once
C3_Witness ==
    /\ world_size = 2 /\ dist_init
    /\ UpdatedThenSyncedOnce(2)
    /\ fed[0].sum # fed[1].sum
    /\ meter[0].deque # meter[1].deque

\* ------------------------------------------------------------------------
\* Properties of NodeDistributedSampler
\* ------------------------------------------------------------------------

Divisible == num_replicas % num_parts = 0

AllIterated == \A r \in Ranks : yielded[r].st # "none"

AllYielded == \A r \in Ranks : yielded[r].st = "ok"

\* index i is in the sequence some rank yielded
Covered(i) == \E r \in Ranks : yielded[r].st = "ok" /\ i \in Range(yielded[r].seq)

\* C1: when W % P = 0 and every rank has iterated its sampler for the epoch,
\* the union of the W yielded sequences contains every index of [0, N).
C1_UnionCoversDataset ==
    (Divisible /\ AllIterated) => \A i \in 0..(dataset_len - 1) : Covered(i)

\* C2: when W % P = 0, an iteration on any rank passes both length assertions
\* and yields exactly ceil(N / W) indices, the number __len__ reports.
C2_EveryRankYieldsNumSamples ==
    \A r \in Ranks :
        (Divisible /\ yielded[r].st # "none") =>
            /\ yielded[r].st = "ok"
            /\ Len(yielded[r].seq) = CeilDiv(dataset_len, num_replicas)
            /\ Len(yielded[r].seq) = SamplerLen

\* C11: when W % P # 0, an iteration on any rank fails with an error and
\* returns no index sequence.
C11_IndivisibleWorldFails ==
    \A r \in Ranks :
        (~Divisible /\ yielded[r].st # "none") => yielded[r].st # "ok"

\* the number of places at which index i stands in the sequences the ranks
\* yielded
Occurrences(i) ==
    SumOver(Ranks,
            [r \in Ranks |->
                Cardinality({k \in DOMAIN yielded[r].seq : yielded[r].seq[k] = i})])

\* C25: when the iteration of one epoch succeeded on every rank, each index
\* of [0, N) is yielded at most twice over all the ranks, and two ranks with
\* different local_rank yield no index in common.
C25_AtMostTwiceAndNodesDisjoint ==
    AllYielded =>
        /\ \A i \in 0..(dataset_len - 1) : Occurrences(i) <= 2
        /\ \A r, q \in Ranks :
              local_rank(r) # local_rank(q) =>
                  Range(yielded[r].seq) \cap Range(yielded[q].seq) = {}

\* every rank of a world of more ranks than local ranks yielded, and one
\* index was yielded twice
C25_Witness ==
    /\ AllYielded
    /\ num_parts > 1 /\ num_replicas > num_parts
    /\ \E i \in 0..(dataset_len - 1) : Occurrences(i) = 2

\* C9: every iteration of a sampler yields what the first iteration under the
\* same set_epoch value (0 if set_epoch was never called) yielded.
C9_SameEpochSameSequence ==
    \A r \in driven :
        yielded[r].st # "none" => yielded[r] = first_yield[r][yield_under[r]]

\* a shuffling sampler iterated under epoch 0, then under epoch 1 with another
\* order, then again under an epoch it had already iterated
C9_Witness ==
    \E r \in driven :
        /\ shuffle /\ yield_again[r] /\ yielded[r].st = "ok"
        /\ DOMAIN first_yield[r] = 0..MaxEpoch
        /\ \E e \in DOMAIN first_yield[r] : first_yield[r][e] # yielded[r]

====
